---- MODULE Spec2Model ----
(***************************************************************************)
(* Model of resize_images.py: a batch tool that surveys a directory of     *)
(* PNG files for the largest dimension S, asks for confirmation, and then  *)
(* rewrites every file in place as an S x S square whose padding is the    *)
(* image's inferred background colour.                                     *)
(*                                                                         *)
(* Specifications:                                                         *)
(*   Spec        main(): survey, confirmation, in-place resize loop, and   *)
(*               a re-run of main() over the same directory.               *)
(*   FairSpec    one run of main() under weak fairness of the loop and     *)
(*               the report.                                               *)
(*   SpecGeom    the scale / centre arithmetic of resize_image_to_square,  *)
(*               with Python's float arithmetic modelled as IEEE-754       *)
(*               binary64 (round to nearest, ties to even).                *)
(*   SpecDetect  detect_background_color on small RGBA images.             *)
(*   SpecPixel   resize_image_to_square at pixel level on small RGB and    *)
(*               RGBA images.                                              *)
(***************************************************************************)
EXTENDS Integers, Sequences, FiniteSets, TLC

VARIABLES
    dir_exists,     \* whether the directory "images" exists
    files,          \* the *.png files of the directory, in glob order
    files0,         \* history: the files as they were when this run of main() began
    run,            \* which run of main() this is
    pc,             \* where main() is
    idx,            \* how many files the current loop has handled
    max_width,      \* find_largest_dimension's running maxima
    max_height,
    square_size,    \* main()'s square_size
    response,       \* main()'s response
    success_count,  \* main()'s success_count
    results,        \* history: what each call of resize_image_to_square did, in order
    writes,         \* history: how many files this run has written to
    prev,           \* history: how the previous run of main() ended
    geom,           \* SpecGeom: one call of the geometry of resize_image_to_square
    det,            \* SpecDetect: one call of detect_background_color
    pix             \* SpecPixel: one call of resize_image_to_square on pixels

mainVars == <<dir_exists, files, files0, run, pc, idx, max_width, max_height,
              square_size, response, success_count, results, writes, prev>>

vars == <<dir_exists, files, files0, run, pc, idx, max_width, max_height,
          square_size, response, success_count, results, writes, prev, geom, det, pix>>

(***************************************************************************)
(* Bounds of the model.                                                    *)
(***************************************************************************)
\* Spec: at most MaxFiles files in the directory
MaxFiles == 2
\* Spec: a decodable file is 1..MaxDim pixels wide and high
MaxDim == 2
\* Spec: main() is run NumRuns times over the same directory
NumRuns == 2
\* SpecGeom: source width and height range over 0..MaxGeomDim
MaxGeomDim == 15
\* SpecGeom: square_size ranges over 1..MaxGeomSize
MaxGeomSize == 15

(***************************************************************************)
(* Python floats: IEEE-754 binary64.  A positive float is a record         *)
(* [exp, man]: man = <<m1, m2, m3>> holds the 53-bit significand           *)
(* M = m1 * 2^36 + m2 * 2^18 + m3 in limbs of 17, 18 and 18 bits           *)
(* (2^16 <= m1 < 2^17), and the value is M * 2^(exp - 52).  The limbs keep *)
(* every intermediate product below 2^31 for operands below 2^12.          *)
(***************************************************************************)
\* bits per low limb of the significand (53 = 17 + 18 + 18)
LimbBits == 18

RECURSIVE Pow2(_)
Pow2(n) == IF n = 0 THEN 1 ELSE 2 * Pow2(n - 1)

Limb == Pow2(LimbBits)

TopLimbMin == Pow2(LimbBits - 2)

\* floor(log2(a / b)) for positive integers a, b
FloorLog2Ratio(a, b) ==
    IF a >= b
    THEN CHOOSE e \in 0..12 : b * Pow2(e) <= a /\ a < b * Pow2(e + 1)
    ELSE 0 - (CHOOSE k \in 1..12 : a * Pow2(k) >= b /\ a * Pow2(k - 1) < b)

\* significand + 1; a carry out of the top limb renormalises to 2^52
ManInc(e, man) ==
    IF man[3] + 1 < Limb THEN [exp |-> e, man |-> <<man[1], man[2], man[3] + 1>>]
    ELSE IF man[2] + 1 < Limb THEN [exp |-> e, man |-> <<man[1], man[2] + 1, 0>>]
    ELSE IF man[1] + 1 < 2 * TopLimbMin THEN [exp |-> e, man |-> <<man[1] + 1, 0, 0>>]
    ELSE [exp |-> e + 1, man |-> <<TopLimbMin, 0, 0>>]

\* round to nearest, ties to even: guard is the first discarded bit, sticky
\* whether any later discarded bit is set
RoundNearestEven(e, man, guard, sticky) ==
    IF guard = 1 /\ (sticky \/ man[3] % 2 = 1)
    THEN ManInc(e, man)
    ELSE [exp |-> e, man |-> man]

\* the quotient num / den in [1, 2), times 2^e, rounded to 53 bits by long
\* division: 16, 18 and 18 quotient bits after the leading 1, then the guard
\* bit and the sticky remainder
FloatDivScaled(e, num, den) ==
    LET t1  == (num - den) * TopLimbMin
        t2  == (t1 % den) * Limb
        t3  == (t2 % den) * Limb
        rem == t3 % den
        g   == IF 2 * rem >= den THEN 1 ELSE 0
    IN  CHOOSE f \in {RoundNearestEven(e, man, g, 2 * rem - g * den > 0)
                      : man \in {<<TopLimbMin + (t1 \div den), t2 \div den, t3 \div den>>}}
               : TRUE

\* a / b for positive integers (Python's true division, correctly rounded).
\* (Here and below, CHOOSE v \in {F(x) : x \in {E}} : TRUE is F(E) with E
\* evaluated once.)
FloatDiv(a, b) ==
    CHOOSE f \in {FloatDivScaled(e, IF e < 0 THEN a * Pow2(0 - e) ELSE a,
                                    IF e < 0 THEN b ELSE b * Pow2(e))
                  : e \in {FloorLog2Ratio(a, b)}} : TRUE

\* how many bits the exact product p1 * 2^36 + ... has beyond 53
NormalizeShift(p1) ==
    CHOOSE s \in 0..12 : TopLimbMin * Pow2(s) <= p1 /\ p1 < 2 * TopLimbMin * Pow2(s)

\* the exact product p1 * 2^36 + l2 * 2^18 + l3, times 2^(e - 52), rounded to
\* 53 bits by dropping its sh low bits
FloatMulShifted(e, p1, l2, l3, sh) ==
    LET d  == Pow2(sh)
        up == Pow2(LimbBits - sh)
        g  == IF sh = 0 THEN 0 ELSE (l3 \div Pow2(sh - 1)) % 2
        st == sh > 0 /\ l3 % Pow2(sh - 1) # 0
    IN  RoundNearestEven(e + sh,
                         <<p1 \div d, (p1 % d) * up + (l2 \div d), (l2 % d) * up + (l3 \div d)>>,
                         g, st)

\* the exact product k * (m1 * 2^36 + m2 * 2^18 + m3) as <<p1, p2, p3>>, the
\* carries of the low limbs moved up: its value is
\* p1 * 2^36 + (p2 % 2^18) * 2^18 + p3 % 2^18
LimbProduct(k, man) ==
    LET p3 == k * man[3]
        p2 == k * man[2] + (p3 \div Limb)
    IN  <<k * man[1] + (p2 \div Limb), p2, p3>>

\* k * f for a positive integer k (exactly representable) and a float f
FloatMul(k, f) ==
    CHOOSE r \in {FloatMulShifted(f.exp, ps[1][1], ps[1][2] % Limb, ps[1][3] % Limb, ps[2])
                  : ps \in {<<p, NormalizeShift(p[1])>> : p \in {LimbProduct(k, f.man)}}} : TRUE

\* f < g for positive floats
FloatLess(f, g) ==
    \/ f.exp < g.exp
    \/ /\ f.exp = g.exp
       /\ \/ f.man[1] < g.man[1]
          \/ f.man[1] = g.man[1] /\ f.man[2] < g.man[2]
          \/ f.man[1] = g.man[1] /\ f.man[2] = g.man[2] /\ f.man[3] < g.man[3]

\* Python's min(a, b): b when b < a, otherwise a
FloatMin(a, b) == IF FloatLess(b, a) THEN b ELSE a

\* int(f): truncation toward zero of a positive float below 2^17
FloatToInt(f) ==
    IF f.exp < 0 THEN 0 ELSE f.man[1] \div Pow2(LimbBits - 2 - f.exp)

\* the float 1.0
FloatOne == [exp |-> 0, man |-> <<TopLimbMin, 0, 0>>]

(***************************************************************************)
(* resize_image_to_square, lines 114-130: the scale and centre arithmetic. *)
(* raised = "ZeroDivisionError" when a source dimension is 0 (line 118).   *)
(***************************************************************************)
NoFloat == [exp |-> 0, man |-> <<0, 0, 0>>]

ScaleFactor(width, height, size) ==
    CHOOSE m \in {FloatMin(a, b) : a \in {FloatDiv(size, width)},
                                   b \in {FloatDiv(size, height)}} : TRUE

NewLength(length, scale) ==
    CHOOSE n \in {FloatToInt(p) : p \in {FloatMul(length, scale)}} : TRUE

\* mutant: the odd pixel of padding is put on the leading side
CenterOffsetCeil(size, new_length) == (size - new_length + 1) \div 2

CenterOffset(size, new_length) == (size - new_length) \div 2

\* lines 119-130, given the scale of line 118
GeometryAtScale(width, height, size, scale) ==
    CHOOSE g \in {[raised |-> "none", scale |-> scale,
                   new_width |-> new_width, new_height |-> new_height,
                   x_offset |-> CenterOffset(size, new_width),
                   y_offset |-> CenterOffset(size, new_height)]
                  : new_width \in {NewLength(width, scale)},
                    new_height \in {NewLength(height, scale)}} : TRUE

ResizeGeometry(width, height, size) ==
    IF width = 0 \/ height = 0
    THEN [raised |-> "ZeroDivisionError", scale |-> NoFloat,
          new_width |-> 0, new_height |-> 0, x_offset |-> 0, y_offset |-> 0]
    ELSE CHOOSE g \in {GeometryAtScale(width, height, size, scale)
                       : scale \in {ScaleFactor(width, height, size)}} : TRUE

(***************************************************************************)
(* The directory.  A file either decodes to an image of width, height >= 1 *)
(* or does not decode at all (Image.open raises; PIL refuses a header with *)
(* a zero dimension, so no decoded file has one).                          *)
(***************************************************************************)
Undecodable == [ok |-> FALSE, width |-> 0, height |-> 0]

FileKinds ==
    {Undecodable} \cup
    {[ok |-> TRUE, width |-> w, height |-> h] : w \in 1..MaxDim, h \in 1..MaxDim}

\* the sequences over S of length at most n
SeqsUpTo(S, n) == UNION {[1..k -> S] : k \in 0..n}

Max(a, b) == IF a >= b THEN a ELSE b

\* get_image_size: (width, height), or None when the file does not decode
get_image_size(file) == IF file.ok THEN <<file.width, file.height>> ELSE <<>>

\* what the user may type at the prompt, and input(...).strip().lower() of it
Inputs == {"y", "Y", " y ", "n", "yes", ""}

StripLower(raw) == IF raw \in {"Y", " y "} THEN "y" ELSE raw

\* how square_img.save can end: it writes the file, raises before touching it,
\* or raises after truncating it
SaveOutcomes == {"saved", "error_untouched", "error_truncated"}

NoGeometry == ResizeGeometry(0, 0, 0)

\* mutant: the resized content is saved instead of the square canvas
SavedFileContentOnly(size, g) == [ok |-> TRUE, width |-> g.new_width, height |-> g.new_height]

\* the file that square_img.save(output_path, 'PNG') leaves behind
SavedFile(size, g) == [ok |-> TRUE, width |-> size, height |-> size]

\* resize_image_to_square, lines 95-130: whether the file decodes, and the
\* geometry computed for it
OpenAndMeasure(file, size) ==
    IF ~file.ok
    THEN [decoded |-> FALSE, geometry |-> NoGeometry]
    ELSE [decoded |-> TRUE, geometry |-> ResizeGeometry(file.width, file.height, size)]

\* resize_image_to_square(image_path, image_path, square_size), lines 95-141,
\* given m = OpenAndMeasure(file, size): what it returns, the file it leaves and
\* whether it wrote to the file.  PIL's resize raises ValueError for a content
\* dimension below 1.
resize_image_to_square(file, size, save, m) ==
    IF \/ ~m.decoded
       \/ m.geometry.raised # "none"
       \/ m.geometry.new_width < 1
       \/ m.geometry.new_height < 1
    THEN [ret |-> FALSE, file |-> file, wrote |-> FALSE]
    ELSE IF save = "saved"
    THEN [ret |-> TRUE, file |-> SavedFile(size, m.geometry), wrote |-> TRUE]
    ELSE IF save = "error_untouched"
    THEN [ret |-> FALSE, file |-> file, wrote |-> FALSE]
    ELSE [ret |-> FALSE, file |-> Undecodable, wrote |-> TRUE]

NoPrev == [finished |-> FALSE, all_ok |-> FALSE, changed |-> FALSE, square_size |-> 0]

(***************************************************************************)
(* Spec: main().                                                           *)
(***************************************************************************)
Init ==
    /\ dir_exists \in BOOLEAN
    /\ files \in (IF dir_exists THEN SeqsUpTo(FileKinds, MaxFiles) ELSE {<<>>})
    /\ files0 = files
    /\ run = 1
    /\ pc = "start"
    /\ idx = 0
    /\ max_width = 0
    /\ max_height = 0
    /\ square_size = 0
    /\ response = ""
    /\ success_count = 0
    /\ results = <<>>
    /\ writes = 0
    /\ prev = NoPrev
    /\ geom = [pc |-> "idle"]
    /\ det = [pc |-> "idle"]
    /\ pix = [pc |-> "idle"]

\* main, lines 146-152 and find_largest_dimension, lines 17-23
CheckDir ==
    /\ pc = "start"
    /\ pc' = IF dir_exists THEN "survey" ELSE "exit"
    /\ idx' = 0
    /\ max_width' = 0
    /\ max_height' = 0
    /\ UNCHANGED <<dir_exists, files, files0, run, square_size, response,
                   success_count, results, writes, prev, geom, det, pix>>

NextMaxWidth(cur, size) == Max(cur, size[1])

\* mutant: the height maximum is fed the width
NextMaxHeightFromWidth(cur, size) == Max(cur, size[1])

NextMaxHeight(cur, size) == Max(cur, size[2])

\* find_largest_dimension, lines 25-31: one iteration of the loop
SurveyStep ==
    /\ pc = "survey"
    /\ idx < Len(files)
    /\ LET size == get_image_size(files[idx + 1])
       IN  IF size # <<>>
           THEN /\ max_width' = NextMaxWidth(max_width, size)
                /\ max_height' = NextMaxHeight(max_height, size)
           ELSE UNCHANGED <<max_width, max_height>>
    /\ idx' = idx + 1
    /\ UNCHANGED <<dir_exists, files, files0, run, pc, square_size, response,
                   success_count, results, writes, prev, geom, det, pix>>

\* find_largest_dimension, lines 34-38, and main, lines 152-156
SurveyReturn ==
    /\ pc = "survey"
    /\ idx = Len(files)
    /\ square_size' = Max(max_width, max_height)
    /\ pc' = IF square_size' = 0 THEN "exit" ELSE "confirm"
    /\ UNCHANGED <<dir_exists, files, files0, run, idx, max_width, max_height,
                   response, success_count, results, writes, prev, geom, det, pix>>

\* mutant: anything but "n" counts as consent
ConfirmedUnlessNo(answer) == answer # "n"

Confirmed(answer) == answer = "y"

\* main, lines 159-169
Confirm ==
    /\ pc = "confirm"
    /\ \E raw \in Inputs : response' = StripLower(raw)
    /\ pc' = IF Confirmed(response') THEN "resize" ELSE "exit"
    /\ idx' = 0
    /\ success_count' = 0
    /\ UNCHANGED <<dir_exists, files, files0, run, max_width, max_height,
                   square_size, results, writes, prev, geom, det, pix>>

\* mutant: every call is counted as a success
NextSuccessCountAlways(count, ret) == count + 1

\* main, lines 172-173: success_count after one call returned ret
NextSuccessCount(count, ret) == IF ret THEN count + 1 ELSE count

\* main, lines 171-173: one iteration of the loop
ResizeStep ==
    /\ pc = "resize"
    /\ idx < Len(files)
    /\ \E m \in {OpenAndMeasure(files[idx + 1], square_size)} :
         \E save \in SaveOutcomes :
           \E r \in {resize_image_to_square(files[idx + 1], square_size, save, m)} :
             /\ files' = [files EXCEPT ![idx + 1] = r.file]
             /\ success_count' = NextSuccessCount(success_count, r.ret)
             /\ results' = Append(results,
                    [path |-> idx + 1, ret |-> r.ret, wrote |-> r.wrote,
                     decoded |-> m.decoded, geometry |-> m.geometry])
             /\ writes' = IF r.wrote THEN writes + 1 ELSE writes
    /\ idx' = idx + 1
    /\ UNCHANGED <<dir_exists, files0, run, pc, max_width, max_height,
                   square_size, response, prev, geom, det, pix>>

\* main, line 175
Report ==
    /\ pc = "resize"
    /\ idx = Len(files)
    /\ pc' = "done"
    /\ UNCHANGED <<dir_exists, files, files0, run, idx, max_width, max_height,
                   square_size, response, success_count, results, writes, prev, geom, det, pix>>

\* main() is run again over the same directory (lines 177-178)
Rerun ==
    /\ pc \in {"done", "exit"}
    /\ run < NumRuns
    /\ run' = run + 1
    /\ prev' = [finished |-> pc = "done",
                all_ok |-> pc = "done" /\ success_count = Len(files),
                changed |-> files # files0,
                square_size |-> square_size]
    /\ pc' = "start"
    /\ files0' = files
    /\ idx' = 0
    /\ max_width' = 0
    /\ max_height' = 0
    /\ square_size' = 0
    /\ response' = ""
    /\ success_count' = 0
    /\ results' = <<>>
    /\ writes' = 0
    /\ UNCHANGED <<dir_exists, files, geom, det, pix>>

Next ==
    \/ CheckDir
    \/ SurveyStep
    \/ SurveyReturn
    \/ Confirm
    \/ ResizeStep
    \/ Report
    \/ Rerun

Spec == Init /\ [][Next]_vars

\* one run of main()
NextOneRun ==
    \/ CheckDir
    \/ SurveyStep
    \/ SurveyReturn
    \/ Confirm
    \/ ResizeStep
    \/ Report

\* one run of main(), in which the loop of lines 171-173 and the report of
\* line 175, being sequential code, run to completion once they can
FairSpec == Init /\ [][NextOneRun]_vars /\ WF_vars(ResizeStep) /\ WF_vars(Report)

TypeOK ==
    /\ pc \in {"start", "survey", "confirm", "resize", "done", "exit"}
    /\ idx \in 0..Len(files)
    /\ Len(files) = Len(files0)

(***************************************************************************)
(* Properties of main().                                                   *)
(***************************************************************************)
SetMax(S) == IF S = {} THEN 0 ELSE CHOOSE m \in S : \A x \in S : x <= m

\* the widths and heights of the files of fs that decode
DecodedLengths(fs) ==
    {fs[k].width : k \in {j \in 1..Len(fs) : fs[j].ok}} \cup
    {fs[k].height : k \in {j \in 1..Len(fs) : fs[j].ok}}

Successes == {k \in 1..Len(results) : results[k].ret}

\* C1: in every run of main() no file is written, and none differs from what
\* it was when the run began, unless the survey has returned a size S > 0
\* that is the maximum over the whole input set and the user has answered
\* "y"; a run that ends early has written nothing; and once a file has been
\* written the run's S does not change.
C1_WriteOnlyAfterConfirm ==
    /\ (writes > 0 \/ files # files0) =>
          /\ pc \in {"resize", "done"}
          /\ response = "y"
          /\ square_size > 0
          /\ square_size = SetMax(DecodedLengths(files0))
    /\ pc = "exit" => writes = 0 /\ files = files0

C1_SizeFixedStep ==
    (run' = run /\ writes' > 0) => square_size' = square_size

C1_NoWriteBeforeConfirmation ==
    [](C1_WriteOnlyAfterConfirm) /\ [][C1_SizeFixedStep]_vars

\* C1 witness: a run that has written a file, and is still going
C1_Witness ==
    /\ pc = "resize"
    /\ writes > 0
    /\ files # files0
    /\ idx < Len(files)

\* C2: once the batch is confirmed, the loop calls resize_image_to_square
\* once for each file, in order, whatever the earlier calls returned;
\* success_count is the number of calls that returned True, between 0 and
\* the number of files; and the run reaches the final report.
C2_EachOnceAndCounted ==
    pc \in {"resize", "done"} =>
        /\ Len(results) = idx
        /\ \A k \in 1..Len(results) : results[k].path = k
        /\ success_count = Cardinality(Successes)
        /\ 0 <= success_count /\ success_count <= Len(files)
        /\ pc = "done" => Len(results) = Len(files)

C2_BatchCompletes ==
    [](C2_EachOnceAndCounted) /\ ((pc = "resize") ~> (pc = "done"))

\* C2 witness: the report is reached after a call that failed was followed by
\* one that succeeded
C2_Witness ==
    /\ pc = "done"
    /\ \E j, k \in 1..Len(results) : j < k /\ ~results[j].ret /\ results[k].ret
    /\ success_count < Len(files)

\* C3: while the survey runs, the running maximum is the maximum of width
\* and height over the files seen so far that decode (files that do not
\* decode are passed over and the loop goes on); the size the survey returns
\* is that maximum over all files, and it is 0 exactly when no file decodes.
C3_SurveyIsMaximum ==
    /\ pc = "survey" =>
          /\ max_width = SetMax({files[k].width : k \in {j \in 1..idx : files[j].ok}})
          /\ max_height = SetMax({files[k].height : k \in {j \in 1..idx : files[j].ok}})
          /\ Max(max_width, max_height) = SetMax(DecodedLengths(SubSeq(files, 1, idx)))
    /\ (pc \in {"confirm", "resize", "done"} \/ (pc = "exit" /\ dir_exists)) =>
          /\ square_size = SetMax(DecodedLengths(files0))
          /\ square_size = 0 <=> \A k \in 1..Len(files0) : ~files0[k].ok

\* C3 witness: the survey has returned the height of the first file, after a
\* file that does not decode and a smaller file
C3_Witness ==
    /\ pc = "confirm"
    /\ \E k \in 1..Len(files) : ~files[k].ok
    /\ Len(files) >= 2
    /\ files[1].ok
    /\ files[1].height = square_size
    /\ files[1].width < square_size

\* C4: every file for which resize_image_to_square returned True is, from
\* then to the end of the run, a decodable file of width and height exactly
\* the run's surveyed S, whatever its size was before.
C4_OutputsAreSquareS ==
    pc \in {"resize", "done"} =>
        /\ square_size = SetMax(DecodedLengths(files0))
        /\ \A k \in Successes :
              /\ files[results[k].path].ok
              /\ files[results[k].path].width = square_size
              /\ files[results[k].path].height = square_size

\* C4 witness: a run that ends having squared a file that was not square
C4_Witness ==
    /\ pc = "done"
    /\ \E k \in Successes :
          /\ files0[results[k].path].width # files0[results[k].path].height
          /\ files0[results[k].path].height < square_size

\* C10: in a run of main() that follows a confirmed run in which every file
\* was resized successfully, the survey returns the same S, and every call
\* of resize_image_to_square computes scale = 1.0, content S x S and
\* offsets (0, 0).
C10_RerunKeepsGeometry ==
    (run >= 2 /\ prev.all_ok) =>
        /\ pc \in {"confirm", "resize", "done"} => square_size = prev.square_size
        /\ \A k \in 1..Len(results) :
              /\ results[k].decoded
              /\ results[k].geometry.raised = "none"
              /\ results[k].geometry.scale = FloatOne
              /\ results[k].geometry.new_width = prev.square_size
              /\ results[k].geometry.new_height = prev.square_size
              /\ results[k].geometry.x_offset = 0
              /\ results[k].geometry.y_offset = 0

\* C10 witness: the second run ends, after a first run that resized every file
\* and changed at least one
C10_Witness ==
    /\ run = 2
    /\ prev.all_ok
    /\ prev.changed
    /\ pc = "done"
    /\ Len(results) >= 2

(***************************************************************************)
(* SpecGeom: one call of the geometry on every input within the bounds.    *)
(***************************************************************************)
MainIdle ==
    /\ dir_exists = FALSE
    /\ files = <<>>
    /\ files0 = <<>>
    /\ run = 0
    /\ pc = "idle"
    /\ idx = 0
    /\ max_width = 0
    /\ max_height = 0
    /\ square_size = 0
    /\ response = ""
    /\ success_count = 0
    /\ results = <<>>
    /\ writes = 0
    /\ prev = NoPrev

GeomInit ==
    /\ MainIdle
    /\ \E w \in 0..MaxGeomDim, h \in 0..MaxGeomDim, s \in 1..MaxGeomSize :
          geom = [pc |-> "call", width |-> w, height |-> h, square_size |-> s,
                  out |-> NoGeometry]
    /\ det = [pc |-> "idle"]
    /\ pix = [pc |-> "idle"]

GeomCompute ==
    /\ geom.pc = "call"
    /\ geom' = [geom EXCEPT !.pc = "done",
                  !.out = ResizeGeometry(geom.width, geom.height, geom.square_size)]
    /\ UNCHANGED <<mainVars, det, pix>>

GeomNext == GeomCompute

SpecGeom == GeomInit /\ [][GeomNext]_vars

\* the pads of one axis: the offset leads, the rest of the canvas trails
LeadingPad(offset) == offset

TrailingPad(size, new_length, offset) == size - offset - new_length

AxisCentred(size, new_length, offset) ==
    /\ offset = (size - new_length) \div 2
    /\ LeadingPad(offset) >= 0
    /\ TrailingPad(size, new_length, offset) >= 0
    /\ LeadingPad(offset) + new_length + TrailingPad(size, new_length, offset) = size
    /\ TrailingPad(size, new_length, offset) - LeadingPad(offset) \in {0, 1}
    /\ ((size - new_length) % 2 = 1) =>
          TrailingPad(size, new_length, offset) = LeadingPad(offset) + 1

GeomCalled ==
    /\ geom.pc = "done"
    /\ geom.width >= 1
    /\ geom.height >= 1

\* C5: for every source size with width, height >= 1 and every S >=
\* max(width, height), the offsets are ((S - new_width) div 2, (S - new_height)
\* div 2); on each axis both pads are non-negative, leading pad + content +
\* trailing pad = S, the pads differ by at most 1, and when S - content is odd
\* the extra pixel of padding is on the trailing (right/bottom) side.
C5_PadsCentred ==
    (GeomCalled /\ geom.square_size >= Max(geom.width, geom.height)) =>
        /\ geom.out.raised = "none"
        /\ AxisCentred(geom.square_size, geom.out.new_width, geom.out.x_offset)
        /\ AxisCentred(geom.square_size, geom.out.new_height, geom.out.y_offset)

\* C5 witness: a wide source in a larger square, the vertical slack odd and
\* split with the extra pixel below
C5_Witness ==
    /\ GeomCalled
    /\ geom.square_size > Max(geom.width, geom.height)
    /\ geom.width > geom.height
    /\ (geom.square_size - geom.out.new_height) % 2 = 1
    /\ geom.out.y_offset >= 1
    /\ TrailingPad(geom.square_size, geom.out.new_height, geom.out.y_offset)
          = geom.out.y_offset + 1

\* the exact aspect-preserving length: length * min(S / width, S / height) is
\* length * S / max(width, height); its floor
ExactFloor(length, width, height, size) ==
    (length * size) \div Max(width, height)

\* |new_length - length * S / max(width, height)| <= 1
WithinOnePixel(new_length, length, width, height, size) ==
    /\ new_length * Max(width, height) <= length * size + Max(width, height)
    /\ new_length * Max(width, height) >= length * size - Max(width, height)

\* C6: for every source size with width, height >= 1 and every S >= 1, the
\* content dimensions are floor(width * scale) and floor(height * scale) for
\* scale = min(S / width, S / height); each is within 1 pixel of the exact
\* aspect-preserving length and neither exceeds S.
C6_ContentIsExactFloor ==
    GeomCalled =>
        /\ geom.out.new_width = ExactFloor(geom.width, geom.width, geom.height, geom.square_size)
        /\ geom.out.new_height = ExactFloor(geom.height, geom.width, geom.height, geom.square_size)
        /\ WithinOnePixel(geom.out.new_width, geom.width, geom.width, geom.height, geom.square_size)
        /\ WithinOnePixel(geom.out.new_height, geom.height, geom.width, geom.height, geom.square_size)
        /\ geom.out.new_width <= geom.square_size
        /\ geom.out.new_height <= geom.square_size

\* C6 witness: the longer side of the source is scaled to one pixel less than
\* S, the binary64 product height * (S / height) lying just below S
C6_Witness ==
    /\ GeomCalled
    /\ geom.height >= geom.width
    /\ geom.out.new_height = geom.square_size - 1
    /\ ExactFloor(geom.height, geom.width, geom.height, geom.square_size) = geom.square_size

(***************************************************************************)
(* Images at pixel level.  An image is its mode, its size and its pixels:  *)
(* px maps (x, y) to (r, g, b) in mode RGB and to (r, g, b, a) in mode     *)
(* RGBA.  Alpha is 0 or 255, for which alpha_composite is exact: a pixel   *)
(* of the upper image replaces the lower one when opaque and leaves it     *)
(* when transparent.                                                       *)
(***************************************************************************)
\* SpecDetect: image width and height range over 0..MaxDetectDim
MaxDetectDim == 3
\* SpecPixel: image width and height range over 0..MaxPixelDim
MaxPixelDim == 2
\* SpecPixel: square_size ranges over 1..MaxPixelSize
MaxPixelSize == 3

White == <<255, 255, 255>>
Red == <<255, 0, 0>>
Blue == <<0, 0, 255>>

Coordinates(width, height) == (0..(width - 1)) \X (0..(height - 1))

\* Image.new(mode, (width, height), color)
NewImage(mode, width, height, color) ==
    [mode |-> mode, width |-> width, height |-> height,
     px |-> [p \in Coordinates(width, height) |-> color]]

\* the images of a mode and size over a set of pixel values
Images(mode, width, height, values) ==
    {[mode |-> mode, width |-> width, height |-> height, px |-> f]
     : f \in [Coordinates(width, height) -> values]}

\* lines 98-101: img.convert('RGBA') of another mode, img.copy() of RGBA
ConvertRGBA(img) ==
    IF img.mode # "RGBA"
    THEN [img EXCEPT !.mode = "RGBA",
                     !.px = [p \in DOMAIN img.px |-> img.px[p] \o <<255>>]]
    ELSE img

\* Image.alpha_composite(dst, src)
AlphaComposite(dst, src) ==
    [dst EXCEPT !.px = [p \in DOMAIN dst.px |->
                          IF src.px[p][4] = 255 THEN src.px[p] ELSE dst.px[p]]]

\* img.convert('RGB') of an RGBA image: the alpha band is dropped
ConvertRGB(img) ==
    IF img.mode = "RGBA"
    THEN [img EXCEPT !.mode = "RGB",
                     !.px = [p \in DOMAIN img.px |-> SubSeq(img.px[p], 1, 3)]]
    ELSE img

(***************************************************************************)
(* detect_background_color, lines 40-91.                                   *)
(***************************************************************************)
\* lines 45-51: the image the samples are read from
ImageToSample(img) ==
    IF img.mode = "RGBA"
    THEN ConvertRGB(AlphaComposite(NewImage("RGBA", img.width, img.height, White \o <<255>>), img))
    ELSE ConvertRGB(img)

\* lines 57-71: (x1, y1, x2, y2) of the eight regions
Regions(width, height) ==
    << <<width \div 4, 0, (width * 3) \div 4, height \div 4>>,
       <<width \div 4, (height * 3) \div 4, (width * 3) \div 4, height>>,
       <<0, height \div 4, width \div 4, (height * 3) \div 4>>,
       <<(width * 3) \div 4, height \div 4, width, (height * 3) \div 4>>,
       <<0, 0, width \div 3, height \div 3>>,
       <<(width * 2) \div 3, 0, width, height \div 3>>,
       <<0, (height * 2) \div 3, width \div 3, height>>,
       <<(width * 2) \div 3, (height * 2) \div 3, width, height>> >>

\* Python's range(start, stop, step) for step >= 1, as a sequence
Range(start, stop, step) ==
    [i \in 1..(IF stop > start THEN (stop - start + step - 1) \div step ELSE 0)
       |-> start + (i - 1) * step]

\* the products of two sequences, the first varying fastest
Grid(xs, ys) ==
    [i \in 1..(Len(xs) * Len(ys)) |->
       <<xs[((i - 1) % Len(xs)) + 1], ys[((i - 1) \div Len(xs)) + 1]>>]

\* lines 73-78: the (x, y) visited in one region, rows outermost
RegionCoordinates(region) ==
    CHOOSE g \in {Grid(xs, ys)
                  : xs \in {Range(region[1], region[3], Max(1, (region[3] - region[1]) \div 20))},
                    ys \in {Range(region[2], region[4], Max(1, (region[4] - region[2]) \div 20))}}
           : TRUE

\* lines 73-79: the (x, y) sampled, in sampling order
SampleCoordinates(width, height) ==
    LET InImage(p) == 0 <= p[1] /\ p[1] < width /\ 0 <= p[2] /\ p[2] < height
    IN  CHOOSE s \in {SelectSeq(RegionCoordinates(r[1]) \o RegionCoordinates(r[2])
                                \o RegionCoordinates(r[3]) \o RegionCoordinates(r[4])
                                \o RegionCoordinates(r[5]) \o RegionCoordinates(r[6])
                                \o RegionCoordinates(r[7]) \o RegionCoordinates(r[8]), InImage)
                      : r \in {Regions(width, height)}} : TRUE

\* lines 80-82: samples, the pixels at those coordinates that have three bands
Samples(img_to_sample) ==
    LET HasRGB(pixel) == Len(pixel) >= 3
    IN  CHOOSE s \in {SelectSeq([i \in 1..Len(cs) |-> img_to_sample.px[cs[i]]], HasRGB)
                      : cs \in {SampleCoordinates(img_to_sample.width, img_to_sample.height)}}
               : TRUE

\* Counter: one more occurrence of elem; a new key goes last
CounterAdd(counter, elem) ==
    IF \E k \in 1..Len(counter) : counter[k][1] = elem
    THEN [k \in 1..Len(counter) |->
            IF counter[k][1] = elem THEN <<elem, counter[k][2] + 1>> ELSE counter[k]]
    ELSE Append(counter, <<elem, 1>>)

\* Counter(samples): the items (colour, count) in insertion order, built from
\* samples[i..]
RECURSIVE CountElements(_, _, _)
CountElements(samples, i, counter) ==
    IF i > Len(samples)
    THEN counter
    ELSE CHOOSE c \in {CountElements(samples, i + 1, next)
                       : next \in {CounterAdd(counter, samples[i])}} : TRUE

\* mutant: a later item of equal count replaces the best one
KeepBestOrLater(best, item) == IF item[2] >= best[2] THEN item ELSE best

\* max(items, key=count) keeps the first of the items of greatest count
KeepBest(best, item) == IF item[2] > best[2] THEN item ELSE best

RECURSIVE MaxByCount(_, _, _)
MaxByCount(items, i, best) ==
    IF i > Len(items)
    THEN best
    ELSE CHOOSE m \in {MaxByCount(items, i + 1, b) : b \in {KeepBest(best, items[i])}} : TRUE

\* color_counts.most_common(1)[0][0], for a Counter that is not empty
MostCommon(counter) == MaxByCount(counter, 2, counter[1])[1]

\* lines 84-91, given the samples
BackgroundOf(samples) ==
    IF samples # <<>>
    THEN CHOOSE c \in {MostCommon(counter) : counter \in {CountElements(samples, 1, <<>>)}} : TRUE
    ELSE White

\* detect_background_color(img): the samples it takes and the colour it returns
DetectTrace(img) ==
    CHOOSE d \in {[samples |-> samples, bg_color |-> BackgroundOf(samples)]
                  : samples \in {Samples(ImageToSample(img))}} : TRUE

detect_background_color(img) == DetectTrace(img).bg_color

(***************************************************************************)
(* SpecDetect: one call of detect_background_color on every RGBA image     *)
(* within the bounds whose pixels are opaque red or transparent.           *)
(***************************************************************************)
DetectValues == {Red \o <<255>>, Blue \o <<0>>}

NoTrace == [samples |-> <<>>, bg_color |-> White]

DetectInit ==
    /\ MainIdle
    /\ geom = [pc |-> "idle"]
    /\ pix = [pc |-> "idle"]
    /\ \E w \in 0..MaxDetectDim, h \in 0..MaxDetectDim :
         \E img \in Images("RGBA", w, h, DetectValues) :
            det = [pc |-> "call", img |-> img, out |-> NoTrace]

DetectCall ==
    /\ det.pc = "call"
    /\ det' = [det EXCEPT !.pc = "done", !.out = DetectTrace(det.img)]
    /\ UNCHANGED <<mainVars, geom, pix>>

DetectNext == DetectCall

SpecDetect == DetectInit /\ [][DetectNext]_vars

\* how often colour c occurs in the samples
Count(samples, c) == Cardinality({i \in 1..Len(samples) : samples[i] = c})

MaxCount(samples) == SetMax({Count(samples, samples[i]) : i \in 1..Len(samples)})

MostFrequent(samples) ==
    {samples[i] : i \in {j \in 1..Len(samples) : Count(samples, samples[j]) = MaxCount(samples)}}

\* the position of the first occurrence of c
FirstSeen(samples, c) ==
    CHOOSE i \in 1..Len(samples) :
        /\ samples[i] = c
        /\ \A j \in 1..(i - 1) : samples[j] # c

\* the position at which the count of c first equals n
Reaches(samples, c, n) ==
    CHOOSE i \in 1..Len(samples) :
        /\ samples[i] = c
        /\ Count(SubSeq(samples, 1, i), c) = n

DetectReturned ==
    /\ det.pc = "done"
    /\ det.out.samples # <<>>

\* C9, as stated: for every non-empty sequence of samples the colour returned
\* has the maximum occurrence count, and among the colours sharing that count
\* it is the first to reach it when the samples are scanned in sampling order.
C9_FirstToReachMaximum ==
    DetectReturned =>
        /\ det.out.bg_color \in MostFrequent(det.out.samples)
        /\ \A c \in MostFrequent(det.out.samples) :
              Reaches(det.out.samples, det.out.bg_color, MaxCount(det.out.samples))
                 <= Reaches(det.out.samples, c, MaxCount(det.out.samples))

\* C9, amended: for every non-empty sequence of samples the colour returned
\* has the maximum occurrence count, and among the colours sharing that count
\* it is the one whose first occurrence is earliest in sampling order.
C9_FirstSeenAmongMostFrequent ==
    DetectReturned =>
        /\ det.out.bg_color \in MostFrequent(det.out.samples)
        /\ \A c \in MostFrequent(det.out.samples) :
              FirstSeen(det.out.samples, det.out.bg_color) <= FirstSeen(det.out.samples, c)

\* C9 witness: two colours tie; the one returned was sampled first, the other
\* one completed its count first
C9_Witness ==
    /\ DetectReturned
    /\ \E c \in MostFrequent(det.out.samples) :
          /\ c # det.out.bg_color
          /\ FirstSeen(det.out.samples, det.out.bg_color) < FirstSeen(det.out.samples, c)
          /\ Reaches(det.out.samples, c, MaxCount(det.out.samples))
                < Reaches(det.out.samples, det.out.bg_color, MaxCount(det.out.samples))

(***************************************************************************)
(* resize_image_to_square at pixel level, lines 95-141.                    *)
(***************************************************************************)
\* a colour that LANCZOS resampling computes.  Which colour it is, is not
\* modelled: the token stands for it and equals no colour of an input.
Resampled == <<-1, -1, -1>>

\* img.resize((new_width, new_height), LANCZOS): PIL returns a copy when the
\* size does not change and resamples every pixel otherwise
Resize(img, new_width, new_height) ==
    IF <<new_width, new_height>> = <<img.width, img.height>>
    THEN img
    ELSE NewImage(img.mode, new_width, new_height, Resampled)

\* mutant: the content is pasted at the top left corner
PasteAtOrigin(dst, src, x_offset, y_offset) ==
    [dst EXCEPT !.px = [p \in DOMAIN dst.px |->
                          IF p \in DOMAIN src.px THEN src.px[p] ELSE dst.px[p]]]

\* dst.paste(src, (x_offset, y_offset))
Paste(dst, src, x_offset, y_offset) ==
    [dst EXCEPT !.px = [p \in DOMAIN dst.px |->
                          IF <<p[1] - x_offset, p[2] - y_offset>> \in DOMAIN src.px
                          THEN src.px[<<p[1] - x_offset, p[2] - y_offset>>]
                          ELSE dst.px[p]]]

NoImage == [mode |-> "none", width |-> 0, height |-> 0, px |-> <<>>]

\* the ways the call can end without an image
Failed(raised, detected, bg_color) ==
    [ret |-> FALSE, raised |-> raised, detected |-> detected, bg_color |-> bg_color,
     geometry |-> NoGeometry, image |-> NoImage]

\* lines 106-133: square_img after the paste, for the geometry g
SquareImage(img_rgba, bg_color, size, g) ==
    CHOOSE s \in {Paste(NewImage("RGB", size, size, bg_color), img_resized,
                        g.x_offset, g.y_offset)
                  : img_resized \in
                      {Resize(ConvertRGB(AlphaComposite(
                                  NewImage("RGBA", img_rgba.width, img_rgba.height,
                                           bg_color \o <<255>>),
                                  img_rgba)),
                              g.new_width, g.new_height)}} : TRUE

\* lines 95-141 for an opened image: what the call returns, what it raised and
\* caught, the colour it detected, its geometry and the image it saved
SquareOutcome(img_rgba, bg_color, size, g, save) ==
    IF g.raised # "none"
    THEN Failed(g.raised, TRUE, bg_color)
    ELSE IF g.new_width < 1 \/ g.new_height < 1
    THEN Failed("ValueError", TRUE, bg_color)
    ELSE IF save # "saved"
    THEN Failed("OSError", TRUE, bg_color)
    ELSE [ret |-> TRUE, raised |-> "none", detected |-> TRUE, bg_color |-> bg_color,
          geometry |-> g, image |-> SquareImage(img_rgba, bg_color, size, g)]

(***************************************************************************)
(* SpecPixel: one call of resize_image_to_square on every image within the *)
(* bounds.  Image.open refuses a file whose header gives a zero width or   *)
(* height; the model also follows an image of that size through lines      *)
(* 98-141, as an image object without pixels goes through them.            *)
(***************************************************************************)
RGBValues == {Red, Blue}

RGBAValues == {Red \o <<255>>, Blue \o <<255>>, Blue \o <<0>>}

Degenerate(img) == img.width = 0 \/ img.height = 0

PixelInit ==
    /\ MainIdle
    /\ geom = [pc |-> "idle"]
    /\ det = [pc |-> "idle"]
    /\ \E w \in 0..MaxPixelDim, h \in 0..MaxPixelDim, s \in 1..MaxPixelSize :
         \E img \in Images("RGB", w, h, RGBValues) \cup Images("RGBA", w, h, RGBAValues) :
            pix = [pc |-> "call", img |-> img, square_size |-> s,
                   out |-> Failed("none", FALSE, White)]

PixelCall ==
    /\ pix.pc = "call"
    /\ \E opened \in (IF Degenerate(pix.img) THEN BOOLEAN ELSE {TRUE}) :
         IF ~opened
         THEN pix' = [pix EXCEPT !.pc = "done",
                                 !.out = Failed("UnidentifiedImageError", FALSE, White)]
         ELSE \E save \in SaveOutcomes :
                \E img_rgba \in {ConvertRGBA(pix.img)} :
                  \E bg_color \in {detect_background_color(img_rgba)} :
                    \E g \in {ResizeGeometry(img_rgba.width, img_rgba.height, pix.square_size)} :
                      pix' = [pix EXCEPT !.pc = "done",
                                !.out = SquareOutcome(img_rgba, bg_color, pix.square_size, g, save)]
    /\ UNCHANGED <<mainVars, geom, det>>

PixelNext == PixelCall

SpecPixel == PixelInit /\ [][PixelNext]_vars

\* (x, y) lies in the content rectangle of the geometry g
InContent(p, g) ==
    /\ g.x_offset <= p[1]
    /\ p[1] < g.x_offset + g.new_width
    /\ g.y_offset <= p[2]
    /\ p[2] < g.y_offset + g.new_height

\* C7: for an input with an alpha channel that is processed successfully the
\* output is an S x S image of mode RGB, every pixel has three bands and no
\* alpha, and every pixel outside the content rectangle [x_offset, x_offset +
\* new_width) x [y_offset, y_offset + new_height) has the colour that
\* detect_background_color inferred for the input.
C7_OpaqueWithBackgroundBorder ==
    (pix.pc = "done" /\ pix.img.mode = "RGBA" /\ pix.out.ret) =>
        /\ pix.out.image.mode = "RGB"
        /\ DOMAIN pix.out.image.px = Coordinates(pix.square_size, pix.square_size)
        /\ pix.out.bg_color = detect_background_color(pix.img)
        /\ \A p \in DOMAIN pix.out.image.px :
              /\ Len(pix.out.image.px[p]) = 3
              /\ ~InContent(p, pix.out.geometry) => pix.out.image.px[p] = pix.out.bg_color

\* C7 witness: an image with a transparent pixel is squared with padding on
\* both sides of the content, the padding of a colour other than white
C7_Witness ==
    /\ pix.pc = "done"
    /\ pix.img.mode = "RGBA"
    /\ pix.out.ret
    /\ \E p \in DOMAIN pix.img.px : pix.img.px[p][4] = 0
    /\ pix.out.geometry.x_offset >= 1
    /\ pix.out.bg_color # White
    /\ pix.out.image.px[<<0, 0>>] = pix.out.bg_color
    /\ pix.out.image.px[<<pix.square_size - 1, 0>>] = pix.out.bg_color
    /\ pix.out.image.px[<<pix.out.geometry.x_offset, 0>>] # pix.out.bg_color

\* C8: an image of zero width or height that reaches the background inferer
\* yields no samples, the background inferred for it is white (255, 255, 255),
\* and its normalization does not end in a failure.
C8_DegenerateHandled ==
    (pix.pc = "done" /\ Degenerate(pix.img) /\ pix.out.detected) =>
        /\ DetectTrace(ConvertRGBA(pix.img)).samples = <<>>
        /\ pix.out.bg_color = White
        /\ pix.out.ret

\* C8 witness: for an image of zero width the background is detected as white
\* and the call then fails on the division of line 118
C8_Witness ==
    /\ pix.pc = "done"
    /\ pix.img.width = 0
    /\ pix.img.height >= 1
    /\ pix.out.detected
    /\ pix.out.bg_color = White
    /\ pix.out.raised = "ZeroDivisionError"
    /\ ~pix.out.ret

====
